---- MODULE Spec2Model ----
(***************************************************************************)
(* A model of realscrape.py: the phone-number normaliser, the page parser  *)
(* parse_agents_from_html with the helpers it calls, and the pagination    *)
(* loop scrape.                                                            *)
(*                                                                         *)
(* A Python str is a sequence of one-character strings.  A parsed JSON     *)
(* value is a record [t, s, n, xs]: t is the Python type, s the text of a  *)
(* str, n the value of an int or bool, xs the items of a list or the       *)
(* entries [k, v] of a dict in insertion order.  None as an optional count *)
(* is the record None, a present count n is Some(n).                       *)
(***************************************************************************)
EXTENDS Integers, Sequences, FiniteSets, TLC

\* ---------------------------------------------------------------- bounds
\* Longest string handed to normalize_number.
MaxLen == 11

\* Most agent-like dicts in a page of SpecPhones, of SpecCounts, of SpecShapes.
MaxAgentsP == 3

MaxAgentsC == 2

MaxAgentsS == 2

\* Most pages scrape is asked for.
MaxPages == 3

\* ------------------------------------------------------------ characters
\* The printable ASCII characters in code-point order (the double quote, the
\* backslash and the backquote, which no string of the model holds, left out).
Ascii ==
  <<" ", "!", "#", "$", "%", "&", "'", "(", ")", "*", "+", ",", "-", ".", "/",
    "0", "1", "2", "3", "4", "5", "6", "7", "8", "9", ":", ";", "<", "=", ">", "?",
    "@", "A", "B", "C", "D", "E", "F", "G", "H", "I", "J", "K", "L", "M", "N", "O",
    "P", "Q", "R", "S", "T", "U", "V", "W", "X", "Y", "Z", "[", "]", "^", "_",
    "a", "b", "c", "d", "e", "f", "g", "h", "i", "j", "k", "l", "m", "n", "o",
    "p", "q", "r", "s", "t", "u", "v", "w", "x", "y", "z", "{", "|", "}", "~">>

UpperCase ==
  <<"A", "B", "C", "D", "E", "F", "G", "H", "I", "J", "K", "L", "M",
    "N", "O", "P", "Q", "R", "S", "T", "U", "V", "W", "X", "Y", "Z">>

LowerCase ==
  <<"a", "b", "c", "d", "e", "f", "g", "h", "i", "j", "k", "l", "m",
    "n", "o", "p", "q", "r", "s", "t", "u", "v", "w", "x", "y", "z">>

\* The rank of a character in code-point order.
Ord(c) == CHOOSE i \in 1..Len(Ascii) : Ascii[i] = c

Digits == <<"0", "1", "2", "3", "4", "5", "6", "7", "8", "9">>

IsDigit(c) == \E i \in 1..10 : Digits[i] = c

DigitVal(c) == (CHOOSE i \in 1..10 : Digits[i] = c) - 1

IsSpace(c) == c \in {" ", "\t", "\n"}

\* str.lower() on one character.
LowerChar(c) ==
  IF \E i \in 1..26 : UpperCase[i] = c THEN LowerCase[CHOOSE i \in 1..26 : UpperCase[i] = c] ELSE c

\* str.lower()
Lower(s) == [i \in 1..Len(s) |-> LowerChar(s[i])]

Min(S) == CHOOSE x \in S : \A y \in S : x <= y

Max(S) == CHOOSE x \in S : \A y \in S : x >= y

\* str.strip(): from the first to the last character that is no whitespace
Strip(s) ==
  LET inked == {i \in 1..Len(s) : ~IsSpace(s[i])}
  IN IF inked = {} THEN <<>> ELSE SubSeq(s, Min(inked), Max(inked))

\* sub in s
Contains(sub, s) ==
  \E i \in 0..(Len(s) - Len(sub)) : SubSeq(s, i + 1, i + Len(sub)) = sub

\* The elements of s at the positions in I, in order.
SubseqAt(s, I) ==
  [k \in 1..Cardinality(I) |-> s[CHOOSE i \in I : Cardinality({j \in I : j < i}) = k - 1]]

\* re.sub(r"\D", "", num)
OnlyDigits(s) == SelectSeq(s, IsDigit)

\* int(s) of a non-empty run of digits
RECURSIVE IntOf(_)
IntOf(s) ==
  IF s = <<>> THEN 0 ELSE 10 * IntOf(SubSeq(s, 1, Len(s) - 1)) + DigitVal(s[Len(s)])

\* str(n) of an int n >= 0
RECURSIVE StrOfNat(_)
StrOfNat(n) ==
  IF n < 10 THEN <<Digits[n + 1]>> ELSE StrOfNat(n \div 10) \o <<Digits[(n % 10) + 1]>>

\* ------------------------------------------------------ normalize_number
NormalizeNumberNoLeadCheck(num) ==
  LET digits == OnlyDigits(num) IN
  IF num = <<>> THEN num
  ELSE IF Len(digits) = 10
    THEN <<"(">> \o SubSeq(digits, 1, 3) \o <<")", " ">> \o SubSeq(digits, 4, 6)
           \o <<"-">> \o SubSeq(digits, 7, 10)
  ELSE IF Len(digits) = 11
    THEN <<"+", "1", " ", "(">> \o SubSeq(digits, 2, 4) \o <<")", " ">>
           \o SubSeq(digits, 5, 7) \o <<"-">> \o SubSeq(digits, 8, 11)
  ELSE Strip(num)

normalize_number(num) ==
  LET digits == OnlyDigits(num) IN
  IF num = <<>> THEN num
  ELSE IF Len(digits) = 10
    THEN <<"(">> \o SubSeq(digits, 1, 3) \o <<")", " ">> \o SubSeq(digits, 4, 6)
           \o <<"-">> \o SubSeq(digits, 7, 10)
  ELSE IF Len(digits) = 11 /\ digits[1] = "1"
    THEN <<"+", "1", " ", "(">> \o SubSeq(digits, 2, 4) \o <<")", " ">>
           \o SubSeq(digits, 5, 7) \o <<"-">> \o SubSeq(digits, 8, 11)
  ELSE Strip(num)

\* ------------------------------------------------------------ JSON values
JNull == [t |-> "null", s |-> <<>>, n |-> 0, xs |-> <<>>]

JStr(s) == [t |-> "str", s |-> s, n |-> 0, xs |-> <<>>]

JInt(n) == [t |-> "int", s |-> <<>>, n |-> n, xs |-> <<>>]

JBool(b) == [t |-> "bool", s |-> <<>>, n |-> IF b THEN 1 ELSE 0, xs |-> <<>>]

\* float("inf") or float("nan"): json.loads accepts Infinity and NaN.
JNonFinite == [t |-> "nonfinite", s |-> <<>>, n |-> 0, xs |-> <<>>]

JList(xs) == [t |-> "list", s |-> <<>>, n |-> 0, xs |-> xs]

\* kv: the entries [k |-> key, v |-> value] in insertion order, keys distinct.
JDict(kv) == [t |-> "dict", s |-> <<>>, n |-> 0, xs |-> kv]

KV(k, v) == [k |-> k, v |-> v]

\* bool(v)
Truthy(v) ==
  CASE v.t = "null" -> FALSE
    [] v.t = "str" -> v.s # <<>>
    [] v.t \in {"int", "bool"} -> v.n # 0
    [] v.t = "nonfinite" -> TRUE
    [] v.t \in {"list", "dict"} -> v.xs # <<>>

\* k in d
Has(d, k) == \E i \in 1..Len(d.xs) : d.xs[i].k = k

\* d.get(k), and d.get(k, default) where only the truth of the result is used
Get(d, k) ==
  IF Has(d, k) THEN d.xs[CHOOSE i \in 1..Len(d.xs) : d.xs[i].k = k].v ELSE JNull

\* list(d.values())
Values(d) == [i \in 1..Len(d.xs) |-> d.xs[i].v]

\* str(v), on the scalar types a name field of the model holds
Str(v) ==
  CASE v.t = "str" -> v.s
    [] v.t = "int" /\ v.n >= 0 -> StrOfNat(v.n)
    [] v.t = "bool" -> IF v.n = 1 THEN <<"T", "r", "u", "e">> ELSE <<"F", "a", "l", "s", "e">>

\* None and a present value of an optional count.
None == [some |-> FALSE, v |-> 0]

Some(n) == [some |-> TRUE, v |-> n]

\* The greatest value that is not None in a set of optional counts.
MaxOptSet(S) ==
  IF \E x \in S : x.some THEN Some(Max({x.v : x \in {y \in S : y.some}})) ELSE None

\* ------------------------------------------------------------------ keys
K_person_name == <<"p", "e", "r", "s", "o", "n", "_", "n", "a", "m", "e">>

K_full_name == <<"f", "u", "l", "l", "_", "n", "a", "m", "e">>

K_first_name == <<"f", "i", "r", "s", "t", "_", "n", "a", "m", "e">>

K_last_name == <<"l", "a", "s", "t", "_", "n", "a", "m", "e">>

K_phones == <<"p", "h", "o", "n", "e", "s">>

K_office == <<"o", "f", "f", "i", "c", "e">>

K_phone_list == <<"p", "h", "o", "n", "e", "_", "l", "i", "s", "t">>

K_number == <<"n", "u", "m", "b", "e", "r">>

K_type == <<"t", "y", "p", "e">>

K_label == <<"l", "a", "b", "e", "l">>

S_Unknown == <<"U", "n", "k", "n", "o", "w", "n">>

S_Office == <<"O", "f", "f", "i", "c", "e">>

\* ---------------------------------------------------------- extract_name
\* (agent.get(k) or "").strip(), where it does not raise
StripField(agent, k) ==
  LET v == Get(agent, k) IN IF Truthy(v) THEN Strip(v.s) ELSE <<>>

\* (agent.get(k) or "").strip() raises AttributeError: the value is truthy
\* and no str
StripFieldRaises(agent, k) ==
  LET v == Get(agent, k) IN Truthy(v) /\ v.t # "str"

extract_name_raises(agent) ==
  /\ ~Truthy(Get(agent, K_person_name))
  /\ ~Truthy(Get(agent, K_full_name))
  /\ (StripFieldRaises(agent, K_first_name) \/ StripFieldRaises(agent, K_last_name))

extract_name(agent) ==
  IF Truthy(Get(agent, K_person_name)) THEN Strip(Str(Get(agent, K_person_name)))
  ELSE IF Truthy(Get(agent, K_full_name)) THEN Strip(Str(Get(agent, K_full_name)))
  ELSE Strip(StripField(agent, K_first_name) \o <<" ">> \o StripField(agent, K_last_name))

\* -------------------------------------------------------- extract_phones
\* "for p in X or []" raises: X is truthy and no list (a number is not
\* iterable; a str or a dict yields its characters or keys, which have no
\* get), or an item is no dict, or an item's number is truthy and no str
\* (re.sub raises TypeError).
NumberRaises(p) == LET nv == Get(p, K_number) IN Truthy(nv) /\ nv.t # "str"

EntriesRaise(entries) ==
  \E i \in 1..Len(entries) : entries[i].t # "dict" \/ NumberRaises(entries[i])

PhonesIterRaises(pv) == Truthy(pv) /\ (pv.t # "list" \/ EntriesRaise(pv.xs))

\* normalize_number(p.get("number", "")); a falsy number comes back falsy
NumberOf(p) ==
  LET nv == Get(p, K_number) IN IF Truthy(nv) THEN normalize_number(nv.s) ELSE <<>>

\* The entry one pass of a loop of extract_phones appends for p, if it
\* appends one: withLabel says whether p.get("label") is tried (the direct
\* phones only), dflt is the type when none is given.
PhoneEntry(p, withLabel, dflt) ==
  [type |-> IF Truthy(Get(p, K_type)) THEN Get(p, K_type)
            ELSE IF withLabel /\ Truthy(Get(p, K_label)) THEN Get(p, K_label)
            ELSE JStr(dflt),
   number |-> NumberOf(p)]

PhoneEntries(entries, withLabel, dflt) ==
  [i \in 1..Len(entries) |-> PhoneEntry(entries[i], withLabel, dflt)]

\* agent.get("office") or {}
OfficeOf(agent) ==
  IF Truthy(Get(agent, K_office)) THEN Get(agent, K_office) ELSE JDict(<<>>)

\* office.get("phone_list") or agent.get("phone_list") or {}
PhoneListOf(agent) ==
  LET office == OfficeOf(agent) IN
  IF Truthy(Get(office, K_phone_list)) THEN Get(office, K_phone_list)
  ELSE IF Truthy(Get(agent, K_phone_list)) THEN Get(agent, K_phone_list)
  ELSE JDict(<<>>)

\* "for X in Y" over a truthy value
ListItems(v) == IF Truthy(v) /\ v.t = "list" THEN v.xs ELSE <<>>

extract_phones_raises(agent) ==
  \/ PhonesIterRaises(Get(agent, K_phones))
  \/ OfficeOf(agent).t # "dict"
  \/ PhonesIterRaises(Get(OfficeOf(agent), K_phones))
  \/ PhoneListOf(agent).t = "dict" /\ EntriesRaise(Values(PhoneListOf(agent)))

\* The three loops in turn: an entry is appended when its number is not
\* empty and not in seen, that is, when no earlier entry had the number.
extract_phones(agent) ==
  LET phone_list == PhoneListOf(agent)
      tried == PhoneEntries(ListItems(Get(agent, K_phones)), TRUE, S_Unknown)
                 \o PhoneEntries(ListItems(Get(OfficeOf(agent), K_phones)), FALSE, S_Office)
                 \o (IF phone_list.t = "dict"
                       THEN PhoneEntries(Values(phone_list), FALSE, S_Office) ELSE <<>>)
      appended == {i \in 1..Len(tried) :
                     /\ tried[i].number # <<>>
                     /\ \A j \in 1..(i - 1) : tried[j].number # tried[i].number}
  IN SubseqAt(tried, appended)

\* --------------------------------------------------- _walk_collect_agents
\* A dict that has a name key and a contact key (lines 68-69).
AgentLike(node) ==
  /\ \/ Has(node, K_person_name)
     \/ Has(node, K_full_name)
     \/ Has(node, K_first_name) /\ Has(node, K_last_name)
  /\ \/ Has(node, K_phones)
     \/ Has(node, K_office)
     \/ Has(node, K_phone_list)

\* The values a walk descends into from v: the values of a dict, the items
\* of a list.
Children(v) == IF v.t = "dict" THEN Values(v) ELSE IF v.t = "list" THEN v.xs ELSE <<>>

\* A node below v is named by its path, the positions taken among the
\* children on the way down; Paths(v) names v and the dicts and lists below.
RECURSIVE Paths(_)
Paths(v) ==
  {<<>>} \cup UNION {{<<i>> \o q : q \in Paths(Children(v)[i])} :
                      i \in {j \in 1..Len(Children(v)) : Children(v)[j].t \in {"dict", "list"}}}

RECURSIVE NodeAt(_, _)
NodeAt(v, path) ==
  IF path = <<>> THEN v ELSE NodeAt(Children(v)[Head(path)], Tail(path))

\* p is visited before q by a depth-first walk that takes a node before its
\* children and the children in order.
PathBefore(p, q) ==
  \E k \in 1..Len(q) :
    /\ k <= Len(p) + 1
    /\ \A i \in 1..(k - 1) : p[i] = q[i]
    /\ k = Len(p) + 1 \/ p[k] < q[k]

\* v and the dicts and lists below it, in the order of the walk.
PreOrder(v) ==
  LET P == Paths(v)
      at(k) == CHOOSE p \in P : Cardinality({q \in P : PathBefore(q, p)}) = k - 1
  IN [k \in 1..Cardinality(P) |-> NodeAt(v, at(k))]

\* The dicts at and below v.
DictsIn(v) == {d \in {NodeAt(v, p) : p \in Paths(v)} : d.t = "dict"}

CollectsNode(node) == node.t = "dict" /\ AgentLike(node)

\* What the call appends to out.
_walk_collect_agents(node) == SelectSeq(PreOrder(node), CollectsNode)

\* -------------------------------------------------- _iter_numeric_counts
\* The plausible range of a count (extract_counts, lines 155-156).
MinPlausible == 0

MaxPlausible == 5000

\* Levels of ancestors _collect_counts_from_html climbs (line 212).
MaxAscend == 8

\* sold_keys and fs_keys of extract_counts, on a lowercased key
KeyPred(kind, k) ==
  IF kind = "sold"
  THEN \/ /\ Contains(<<"s", "o", "l", "d">>, k)
          /\ ~Contains(<<"u", "n", "s", "o", "l", "d">>, k)
          /\ ~Contains(<<"r", "e", "s", "o", "l", "u", "t", "i", "o", "n">>, k)
       \/ Contains(<<"r", "e", "c", "e", "n", "t", "_", "s", "o", "l", "d">>, k)
       \/ Contains(<<"s", "o", "l", "d", "_", "c", "o", "u", "n", "t">>, k)
       \/ Contains(<<"t", "r", "a", "n", "s", "a", "c", "t", "i", "o", "n", "s",
                      "_", "s", "o", "l", "d">>, k)
  ELSE \/ Contains(<<"f", "o", "r", "_", "s", "a", "l", "e">>, k)
       \/ Contains(<<"f", "o", "r", "-", "s", "a", "l", "e">>, k)
       \/ Contains(<<"a", "c", "t", "i", "v", "e", "_",
                      "l", "i", "s", "t", "i", "n", "g", "s">>, k)
       \/ Contains(<<"a", "c", "t", "i", "v", "e", "_", "l", "i", "s", "t", "i", "n", "g",
                      "_", "c", "o", "u", "n", "t">>, k)
       \/ Contains(<<"l", "i", "s", "t", "i", "n", "g", "s", "_", "a", "c", "t", "i", "v", "e">>, k)

\* s.isdigit()
IsDigitStr(s) == s # <<>> /\ \A i \in 1..Len(s) : IsDigit(s[i])

\* The candidates are gathered into a list of which extract_counts takes
\* the maximum after filtering: the model keeps the set of its values.
\* Every dict at or below node gives those of its matching keys.
_iter_numeric_counts(node, kind) ==
  UNION {{d.xs[i].v.n : i \in {j \in 1..Len(d.xs) :
                                 /\ KeyPred(kind, Lower(d.xs[j].k))
                                 /\ d.xs[j].v.t \in {"int", "bool"}}}
           \cup {IntOf(Strip(d.xs[i].v.s)) : i \in {j \in 1..Len(d.xs) :
                                 /\ KeyPred(kind, Lower(d.xs[j].k))
                                 /\ d.xs[j].v.t = "str"
                                 /\ IsDigitStr(Strip(d.xs[j].v.s))}} :
         d \in DictsIn(node)}

\* int(v) raises OverflowError or ValueError: a non-finite float under a
\* matching key, at or below node (line 136).
IterCountsRaises(node, kind) ==
  \E d \in DictsIn(node) : \E i \in 1..Len(d.xs) :
    KeyPred(kind, Lower(d.xs[i].k)) /\ d.xs[i].v.t = "nonfinite"

\* ---------------------------------------------------------- extract_counts
\* max(vals) if vals else None
MaxOrNone(vals) == IF vals = {} THEN None ELSE Some(Max(vals))

Plausible(v) == MinPlausible <= v /\ v <= MaxPlausible

extract_counts(block) ==
  [sold |-> MaxOrNone({v \in _iter_numeric_counts(block, "sold") : Plausible(v)}),
   fs |-> MaxOrNone({v \in _iter_numeric_counts(block, "fs") : Plausible(v)})]

extract_counts_raises(block) ==
  IterCountsRaises(block, "sold") \/ IterCountsRaises(block, "fs")

NoCounts == [sold |-> None, fs |-> None]

\* A dict of counts keyed by name is a function; d.get(k, (None, None)):
CountsGet(d, k) == IF k \in DOMAIN d THEN d[k] ELSE NoCounts

\* -------------------------------------------------- _collect_counts_by_name
\* The name walk() gives a dict (lines 167-176); the empty string for None.
CountsName(node) ==
  IF Truthy(Get(node, K_person_name)) THEN Strip(Str(Get(node, K_person_name)))
  ELSE IF Truthy(Get(node, K_full_name)) THEN Strip(Str(Get(node, K_full_name)))
  ELSE IF Truthy(Get(node, K_first_name)) \/ Truthy(Get(node, K_last_name))
    THEN Strip(StripField(node, K_first_name) \o <<" ">> \o StripField(node, K_last_name))
  ELSE <<>>

CountsNameRaises(node) ==
  /\ ~Truthy(Get(node, K_person_name))
  /\ ~Truthy(Get(node, K_full_name))
  /\ (StripFieldRaises(node, K_first_name) \/ StripFieldRaises(node, K_last_name))

\* The dicts for which walk() stores counts (lines 177-184).
Counted(node) ==
  /\ CountsName(node) # <<>>
  /\ extract_counts(node).sold.some \/ extract_counts(node).fs.some

\* walk() visits every dict at and below the roots and merges its counts
\* into out[key] by the per-field maximum: out[key] ends as the per-field
\* maximum over the dicts of that key.
_collect_counts_by_name(roots) ==
  LET stored == {d \in DictsIn(JList(roots)) : Counted(d)}
      of(key) == {d \in stored : Lower(CountsName(d)) = key}
  IN [key \in {Lower(CountsName(d)) : d \in stored} |->
        [sold |-> MaxOptSet({extract_counts(d).sold : d \in of(key)}),
         fs |-> MaxOptSet({extract_counts(d).fs : d \in of(key)})]]

_collect_counts_by_name_raises(roots) ==
  \E d \in DictsIn(JList(roots)) :
    \/ CountsNameRaises(d)
    \/ CountsName(d) # <<>> /\ extract_counts_raises(d)

\* ---------------------------------------------------------- _normalize_name
\* re.sub(r"\s+", " ", s)
\* Each run of whitespace gives one space: the positions kept are those of
\* the other characters and of the first character of each run.
CollapseSpaces(s) ==
  LET keep == {i \in 1..Len(s) : ~IsSpace(s[i]) \/ i = 1 \/ ~IsSpace(s[i - 1])}
      at(k) == CHOOSE i \in keep : Cardinality({j \in keep : j < i}) = k - 1
  IN [k \in 1..Cardinality(keep) |-> IF IsSpace(s[at(k)]) THEN " " ELSE s[at(k)]]

_normalize_name(s) == Lower(Strip(CollapseSpaces(s)))

\* ------------------------------------------------ _collect_counts_from_html
\* The visible text of a page is the sequence of its text nodes, each
\* [text, anc]: anc[1] is the node's parent, anc[2] the parent's parent, ...
\* A container is [items, sold_m, fs_m]: its agent-detail-item spans, each
\* [label, num] with num the match of [0-9][0-9,]* in its bold-text or price
\* span, and the matches of the "Sold: n" and "For sale: n" patterns in its
\* flattened text.  A match is [m, g]: whether the pattern matched, and the
\* text of the group.
NoMatch == [m |-> FALSE, g |-> <<>>]

Match(g) == [m |-> TRUE, g |-> g]

NotComma(c) == c # ","

\* int(g.replace(",", "")), where it does not raise
IntOfGroup(g) == IntOf(SelectSeq(g, NotComma))

\* int("") raises ValueError
IntOfGroupRaises(g) == SelectSeq(g, NotComma) = <<>>

\* The loop over a container's detail items (lines 217-229): (sold, fs),
\* each the maximum of the values of its spans.
ItemsCounts(items) ==
  LET valued == {i \in 1..Len(items) : items[i].num.m}
      label(i) == Lower(Strip(items[i].label))
      forSale == {i \in valued : Contains(<<"f", "o", "r", " ", "s", "a", "l", "e">>, label(i))}
      sold == {i \in valued \ forSale : Contains(<<"s", "o", "l", "d">>, label(i))}
  IN [sold |-> MaxOrNone({IntOfGroup(items[i].num.g) : i \in sold}),
      fs |-> MaxOrNone({IntOfGroup(items[i].num.g) : i \in forSale})]

\* The "Sold: n" / "For sale: n" fallback on a container's text (lines 241-246).
TextCounts(container) ==
  [sold |-> IF container.sold_m.m THEN Some(IntOfGroup(container.sold_m.g)) ELSE None,
   fs |-> IF container.fs_m.m THEN Some(IntOfGroup(container.fs_m.g)) ELSE None]

TextCountsRaises(container) ==
  \/ container.sold_m.m /\ IntOfGroupRaises(container.sold_m.g)
  \/ container.fs_m.m /\ IntOfGroupRaises(container.fs_m.g)

ItemsHit(container) ==
  ItemsCounts(container.items).sold.some \/ ItemsCounts(container.items).fs.some

\* The climb from one text node (lines 211-256) ends at the first of its
\* MaxAscend nearest containers that has a valued detail item or a text
\* match: [hit, raised, counts].
Ascend(anc) ==
  LET ending == {l \in 1..Len(anc) :
                   /\ l <= MaxAscend
                   /\ \/ ItemsHit(anc[l])
                      \/ anc[l].sold_m.m
                      \/ anc[l].fs_m.m}
  IN IF ending = {} THEN [hit |-> FALSE, raised |-> FALSE, counts |-> NoCounts]
     ELSE IF ItemsHit(anc[Min(ending)])
       THEN [hit |-> TRUE, raised |-> FALSE, counts |-> ItemsCounts(anc[Min(ending)].items)]
     ELSE IF TextCountsRaises(anc[Min(ending)])
       THEN [hit |-> FALSE, raised |-> TRUE, counts |-> NoCounts]
     ELSE [hit |-> TRUE, raised |-> FALSE, counts |-> TextCounts(anc[Min(ending)])]

\* The text nodes find_all(string=pat) gives that pass line 209.
NameMatches(node, name_norm) ==
  Contains(name_norm, Lower(node.text)) /\ _normalize_name(node.text) = name_norm

\* results[name_norm] is set at the first text node of the name whose climb
\* ends, and merged by the per-field maximum at each later one.
_collect_counts_from_html(page, target_names) ==
  LET ended(name_norm) ==
        {i \in 1..Len(page.text) :
           NameMatches(page.text[i], name_norm) /\ Ascend(page.text[i].anc).hit}
  IN [name_norm \in {n \in target_names : ended(n) # {}} |->
        [sold |-> MaxOptSet({Ascend(page.text[i].anc).counts.sold : i \in ended(name_norm)}),
         fs |-> MaxOptSet({Ascend(page.text[i].anc).counts.fs : i \in ended(name_norm)})]]

_collect_counts_from_html_raises(page, target_names) ==
  \E name_norm \in target_names : \E i \in 1..Len(page.text) :
    NameMatches(page.text[i], name_norm) /\ Ascend(page.text[i].anc).raised

\* ------------------------------------------ _load_json_candidates_from_html
\* A page's script elements are page.scripts, each [next_data, json, body,
\* frags]: whether its id is __NEXT_DATA__, whether its type is
\* application/json, what json.loads gives for its text, and what it gives
\* for each cleaned span the "person_name"/"phones" pattern finds in it.
\* Text that json.loads rejects (an empty text too) is Unparseable.
Unparseable == [t |-> "unparseable", s |-> <<>>, n |-> 0, xs |-> <<>>]

Parsed(v) == v.t # "unparseable"

\* Strategy 1 (lines 36-41): the first script with the id.
NextDataCandidates(scripts) ==
  IF \E i \in 1..Len(scripts) : scripts[i].next_data
  THEN LET tag == scripts[CHOOSE i \in 1..Len(scripts) :
                            /\ scripts[i].next_data
                            /\ \A j \in 1..(i - 1) : ~scripts[j].next_data]
       IN IF Parsed(tag.body) THEN <<tag.body>> ELSE <<>>
  ELSE <<>>

\* Strategy 2 (lines 43-48): every script typed application/json.
ParsedJsonScript(script) == script.json /\ Parsed(script.body)

JsonScriptCandidates(scripts) ==
  LET found == SelectSeq(scripts, ParsedJsonScript)
  IN [i \in 1..Len(found) |-> found[i].body]

\* Strategy 3 (lines 50-60): the spans found in every script.
RECURSIVE InlineCandidates(_)
InlineCandidates(scripts) ==
  IF scripts = <<>> THEN <<>>
  ELSE SelectSeq(Head(scripts).frags, Parsed) \o InlineCandidates(Tail(scripts))

_load_json_candidates_from_html(page) ==
  NextDataCandidates(page.scripts) \o JsonScriptCandidates(page.scripts)
    \o InlineCandidates(page.scripts)

\* ------------------------------------------------- parse_agents_from_html
\* out_keyed is the sequence of its values in insertion order, each with its
\* key: [key, name, phones, sold, for_sale].
HasKey(out_keyed, key) == \E i \in 1..Len(out_keyed) : out_keyed[i].key = key

IndexOfKey(out_keyed, key) == CHOOSE i \in 1..Len(out_keyed) : out_keyed[i].key = key

\* Lines 266-273.
ValidNode(raw) == extract_name(raw) # <<>> /\ extract_phones(raw) # <<>>

ValidNames(nodes) ==
  LET kept == SelectSeq(nodes, ValidNode)
  IN [i \in 1..Len(kept) |-> extract_name(kept[i])]

\* extract_name or extract_phones raises on raw (lines 268-271, 280-283).
NodeRaises(raw) ==
  \/ extract_name_raises(raw)
  \/ extract_name(raw) # <<>> /\ extract_phones_raises(raw)

MergePhonesAppendAll(existing, have, phones) == existing \o phones

\* Lines 294-299: existing extended by the pairs of phones that have does
\* not hold.
MergePhones(existing, have, phones) ==
  LET Fresh(p) == <<p.type, p.number>> \notin have
  IN existing \o SelectSeq(phones, Fresh)

PairsOf(phones) == {<<phones[i].type, phones[i].number>> : i \in 1..Len(phones)}

\* hash((type, number)) raises TypeError: a type is a list or a dict.
MergePhonesRaises(existing, phones) ==
  \/ \E i \in 1..Len(existing) : existing[i].type.t \in {"list", "dict"}
  \/ \E i \in 1..Len(phones) : phones[i].type.t \in {"list", "dict"}

RaiseToOverwrite(prev, candidate) == IF candidate.some THEN candidate ELSE prev

\* Lines 302-309: each candidate that is not None raises the stored value.
RaiseTo(prev, candidate) ==
  IF candidate.some
  THEN (IF prev.some THEN (IF prev.v >= candidate.v THEN prev ELSE candidate)
        ELSE candidate)
  ELSE prev

SkipsNamelessOnly(name, phones) == name = <<>>

\* The two "continue" of the loop (lines 281-285).
Skips(name, phones) == name = <<>> \/ phones = <<>>

\* One pass of the loop of lines 279-309, where it does not raise.
ReconcileNodeJsonFirst(out_keyed, raw, counts_json, counts_html) ==
  LET name == extract_name(raw)
      phones == extract_phones(raw)
      key == Lower(name)
      h == CountsGet(counts_html, _normalize_name(name))
      j == CountsGet(counts_json, key)
  IN IF Skips(name, phones) THEN out_keyed
     ELSE IF ~HasKey(out_keyed, key)
       THEN Append(out_keyed,
                   [key |-> key, name |-> name, phones |-> phones,
                    sold |-> IF j.sold.some THEN j.sold ELSE h.sold,
                    for_sale |-> IF j.fs.some THEN j.fs ELSE h.fs])
     ELSE LET i == IndexOfKey(out_keyed, key)
              e == out_keyed[i]
          IN [out_keyed EXCEPT ![i] =
                [e EXCEPT !.phones = MergePhones(e.phones, PairsOf(e.phones), phones),
                          !.sold = RaiseTo(RaiseTo(e.sold, h.sold), j.sold),
                          !.for_sale = RaiseTo(RaiseTo(e.for_sale, h.fs), j.fs)]]

ReconcileNode(out_keyed, raw, counts_json, counts_html) ==
  LET name == extract_name(raw)
      phones == extract_phones(raw)
      key == Lower(name)
      h == CountsGet(counts_html, _normalize_name(name))
      j == CountsGet(counts_json, key)
  IN IF Skips(name, phones) THEN out_keyed
     ELSE IF ~HasKey(out_keyed, key)
       THEN Append(out_keyed,
                   [key |-> key, name |-> name, phones |-> phones,
                    sold |-> IF h.sold.some THEN h.sold ELSE j.sold,
                    for_sale |-> IF h.fs.some THEN h.fs ELSE j.fs])
     ELSE LET i == IndexOfKey(out_keyed, key)
              e == out_keyed[i]
          IN [out_keyed EXCEPT ![i] =
                [e EXCEPT !.phones = MergePhones(e.phones, PairsOf(e.phones), phones),
                          !.sold = RaiseTo(RaiseTo(e.sold, h.sold), j.sold),
                          !.for_sale = RaiseTo(RaiseTo(e.for_sale, h.fs), j.fs)]]

ReconcileNodeRaises(out_keyed, raw) ==
  \/ NodeRaises(raw)
  \/ /\ extract_name(raw) # <<>>
     /\ extract_phones(raw) # <<>>
     /\ HasKey(out_keyed, Lower(extract_name(raw)))
     /\ MergePhonesRaises(out_keyed[IndexOfKey(out_keyed, Lower(extract_name(raw)))].phones,
                          extract_phones(raw))

\* a < b as Python compares two str
\* at the first position k where they differ, a has ended or holds the
\* lesser character
StrLess(a, b) ==
  \E k \in 1..Len(b) :
    /\ k <= Len(a) + 1
    /\ \A i \in 1..(k - 1) : a[i] = b[i]
    /\ k = Len(a) + 1 \/ Ord(a[k]) < Ord(b[k])

Unsorted(recs) == recs

\* sorted(..., key=lambda x: x["name"].lower()), a stable sort: recs[i] comes
\* after the records of lesser key and the earlier records of equal key.
SortedByName(recs) ==
  LET key(i) == Lower(recs[i].name)
      before(i) == {j \in 1..Len(recs) :
                      StrLess(key(j), key(i)) \/ (key(j) = key(i) /\ j < i)}
  IN [k \in 1..Len(recs) |->
        recs[CHOOSE i \in 1..Len(recs) : Cardinality(before(i)) = k - 1]]

\* out_keyed.values(): the records, without the keys the model keeps by them.
Records(out_keyed) ==
  [i \in 1..Len(out_keyed) |->
     [name |-> out_keyed[i].name, phones |-> out_keyed[i].phones,
      sold |-> out_keyed[i].sold, for_sale |-> out_keyed[i].for_sale]]

\* { _normalize_name(n) for n in valid_names } (line 276)
TargetNames(names) == {_normalize_name(names[i]) : i \in 1..Len(names)}

\* ------------------------------------------------------------------ scrape
\* A response r of s.get is [exc, status_code, empty, reference_id, page]:
\* whether the request raised RequestException, and if not the status, whether
\* r.text is empty, whether it holds "Reference ID", and the page it is.
Resp(exc, status_code, empty, reference_id, page) ==
  [exc |-> exc, status_code |-> status_code, empty |-> empty,
   reference_id |-> reference_id, page |-> page]

\* The two "break" of lines 322-330.
StopsAt(r) == r.exc \/ r.status_code # 200 \/ r.empty \/ r.reference_id

NewAgentsUnfiltered(agents, seen) == agents

\* Line 334.
NewAgents(agents, seen) ==
  LET Unseen(a) == Lower(a.name) \notin seen IN SelectSeq(agents, Unseen)

\* ----------------------------------------------------------------- state
VARIABLES
  num,        \* normalize_number: the argument
  norm_out,   \* normalize_number: the value returned
  npc,        \* normalize_number: "input" while the argument is drawn, then "done"
  html,       \* parse_agents_from_html: the page, [scripts, text]
  pc,         \* parse_agents_from_html: the next step, "done" or "raised"
  roots,      \* line 260
  collected,  \* line 261
  valid_names,            \* line 266
  counts_by_name_json,    \* line 275
  counts_by_name_html,    \* line 276
  out_keyed,  \* line 278
  idx,        \* the position in collected of the loop of line 279
  result,     \* the list returned (line 311)
  max_pages,  \* scrape: the argument
  pg,         \* scrape: the loop variable of line 319
  all_agents, \* scrape: line 316
  seen_names, \* scrape: line 317
  spc,        \* scrape: "loop", "parsing", "returned" or "raised"
  fetched     \* scrape: the requests made so far, each [pg, r, parsed, agents]:
              \* the page number, the response, and once the response is
              \* parsed the list parse_agents_from_html returned

normVars == <<num, norm_out, npc>>

parseVars ==
  <<html, pc, roots, collected, valid_names, counts_by_name_json, counts_by_name_html,
    out_keyed, idx, result>>

scrapeVars == <<max_pages, pg, all_agents, seen_names, spc, fetched>>

vars == <<normVars, parseVars, scrapeVars>>

NoPage == [scripts |-> <<>>, text |-> <<>>]

NormIdle == num = <<>> /\ norm_out = <<>> /\ npc = "idle"

ParseIdle ==
  /\ html = NoPage
  /\ pc = "idle"
  /\ roots = <<>>
  /\ collected = <<>>
  /\ valid_names = <<>>
  /\ counts_by_name_json = <<>>
  /\ counts_by_name_html = <<>>
  /\ out_keyed = <<>>
  /\ idx = 1
  /\ result = <<>>

ScrapeIdle ==
  /\ max_pages = 0
  /\ pg = 1
  /\ all_agents = <<>>
  /\ seen_names = {}
  /\ spc = "idle"
  /\ fetched = <<>>

\* ------------------------------------- normalize_number on drawn strings
\* The characters an argument is drawn from: the digit 1, another digit, a
\* separator that is neither digit nor whitespace, and whitespace.
NumChars == {"1", "5", " "}

InitNorm ==
  /\ num = <<>>
  /\ norm_out = <<>>
  /\ npc = "input"
  /\ ParseIdle
  /\ ScrapeIdle

\* The caller's argument grows by one character.
TypeChar ==
  /\ npc = "input"
  /\ Len(num) < MaxLen
  /\ \E c \in NumChars : num' = Append(num, c)
  /\ UNCHANGED <<norm_out, npc, parseVars, scrapeVars>>

\* The call normalize_number(num).
Normalize ==
  /\ npc = "input"
  /\ norm_out' = normalize_number(num)
  /\ npc' = "done"
  /\ UNCHANGED <<num, parseVars, scrapeVars>>

NextNorm == TypeChar \/ Normalize

SpecNorm == InitNorm /\ [][NextNorm]_vars

\* ----------------------------------- parse_agents_from_html, step by step
\* Lines 260-263: the walks from the roots in turn are one walk from their list.
LoadCandidates ==
  /\ pc = "start"
  /\ roots' = _load_json_candidates_from_html(html)
  /\ collected' = _walk_collect_agents(JList(_load_json_candidates_from_html(html)))
  /\ pc' = "names"
  /\ UNCHANGED <<html, valid_names, counts_by_name_json, counts_by_name_html,
                 out_keyed, idx, result, normVars, scrapeVars>>

\* Lines 266-273.
CollectValidNames ==
  /\ pc = "names"
  /\ IF \E i \in 1..Len(collected) : NodeRaises(collected[i])
       THEN pc' = "raised" /\ UNCHANGED valid_names
       ELSE pc' = "counts" /\ valid_names' = ValidNames(collected)
  /\ UNCHANGED <<html, roots, collected, counts_by_name_json, counts_by_name_html,
                 out_keyed, idx, result, normVars, scrapeVars>>

\* Lines 275-278.
CollectCounts ==
  /\ pc = "counts"
  /\ IF \/ _collect_counts_by_name_raises(roots)
        \/ _collect_counts_from_html_raises(html, TargetNames(valid_names))
       THEN pc' = "raised" /\ UNCHANGED <<counts_by_name_json, counts_by_name_html>>
       ELSE /\ pc' = "reconcile"
            /\ counts_by_name_json' = _collect_counts_by_name(roots)
            /\ counts_by_name_html' =
                 _collect_counts_from_html(html, TargetNames(valid_names))
  /\ out_keyed' = <<>>
  /\ idx' = 1
  /\ UNCHANGED <<html, roots, collected, valid_names, result, normVars, scrapeVars>>

\* One pass of the loop of lines 279-309, on collected[idx].
Reconcile ==
  /\ pc = "reconcile"
  /\ idx <= Len(collected)
  /\ IF ReconcileNodeRaises(out_keyed, collected[idx])
       THEN pc' = "raised" /\ UNCHANGED <<out_keyed, idx>>
       ELSE /\ out_keyed' = ReconcileNode(out_keyed, collected[idx],
                                          counts_by_name_json, counts_by_name_html)
            /\ idx' = idx + 1
            /\ pc' = pc
  /\ UNCHANGED <<html, roots, collected, valid_names, counts_by_name_json,
                 counts_by_name_html, result, normVars, scrapeVars>>

\* Line 311.
Return ==
  /\ pc = "reconcile"
  /\ idx > Len(collected)
  /\ result' = SortedByName(Records(out_keyed))
  /\ pc' = "done"
  /\ UNCHANGED <<html, roots, collected, valid_names, counts_by_name_json,
                 counts_by_name_html, out_keyed, idx, normVars, scrapeVars>>

NextParse == LoadCandidates \/ CollectValidNames \/ CollectCounts \/ Reconcile \/ Return

\* The state at the call parse_agents_from_html(page).
ParseStart(page) ==
  /\ html = page
  /\ pc = "start"
  /\ roots = <<>>
  /\ collected = <<>>
  /\ valid_names = <<>>
  /\ counts_by_name_json = <<>>
  /\ counts_by_name_html = <<>>
  /\ out_keyed = <<>>
  /\ idx = 1
  /\ result = <<>>
  /\ NormIdle
  /\ ScrapeIdle

\* ------------------------------------------------------ the pages drawn
Tel10 == <<"2", "0", "6", "5", "5", "5", "1", "2", "3", "4">>

\* "phones": [{"type": "Office", "number": "2065551234"}]
DirectOffice ==
  KV(K_phones, JList(<<JDict(<<KV(K_type, JStr(S_Office)), KV(K_number, JStr(Tel10))>>)>>))

\* Agent-like dicts that differ in how the name and the phones are given.
AnnOffice == JDict(<<KV(K_person_name, JStr(<<"A", "n", "n">>)), DirectOffice>>)

ANNPlusOne ==
  JDict(<<KV(K_person_name, JStr(<<"A", "N", "N">>)),
          KV(K_phones,
             JList(<<JDict(<<KV(K_number,
                                JStr(<<"1", "2", "0", "6", "5", "5", "5",
                                       "1", "2", "3", "4">>))>>)>>))>>)

AnnMobile ==
  JDict(<<KV(K_person_name, JNull),
          KV(K_full_name, JStr(<<"A", "n", "n">>)),
          KV(K_phones,
             JList(<<JDict(<<KV(K_label, JStr(<<"M", "o", "b", "i", "l", "e">>)),
                             KV(K_number,
                                JStr(<<"2", "0", "6", "-", "5", "5", "5", "-",
                                       "1", "2", "3", "4">>))>>),
                     JDict(<<KV(K_type, JStr(S_Office)), KV(K_number, JStr(Tel10))>>)>>))>>)

AlList ==
  JDict(<<KV(K_full_name, JStr(<<" ", "A", "l", " ">>)),
          KV(K_phone_list,
             JDict(<<KV(<<"a">>,
                        JDict(<<KV(K_number,
                                   JStr(<<"5", "5", "5", "1", "2", "3", "4">>))>>))>>))>>)

NoPhones ==
  JDict(<<KV(K_person_name, JStr(<<"C", "y">>)),
          KV(K_phones, JList(<<JDict(<<KV(K_number, JStr(<<" ">>))>>)>>))>>)

\* The five above; "ann" as a first name with the phones under office; and
\* "Cy" as a full name behind a blank person_name.
PhoneAgents ==
  {AnnOffice, ANNPlusOne, AnnMobile, AlList, NoPhones,
   JDict(<<KV(K_first_name, JStr(<<"a", "n", "n">>)),
           KV(K_last_name, JStr(<<>>)),
           KV(K_office,
              JDict(<<KV(K_phones, JList(<<JDict(<<KV(K_number, JStr(Tel10))>>)>>)),
                      KV(K_phone_list,
                         JDict(<<KV(<<"m">>,
                                    JDict(<<KV(K_type, JStr(<<"M", "o", "b", "i", "l", "e">>)),
                                            KV(K_number,
                                               JStr(<<"5", "5", "5",
                                                      "1", "2", "3", "4">>))>>))>>))>>))>>),
   JDict(<<KV(K_person_name, JStr(<<" ">>)), KV(K_full_name, JStr(<<"C", "y">>)),
           DirectOffice>>)}

\* The sequences of at most n elements of S.
RECURSIVE SeqsUpTo(_, _)
SeqsUpTo(S, n) ==
  IF n = 0 THEN {<<>>}
  ELSE LET shorter == SeqsUpTo(S, n - 1)
       IN shorter \cup {Append(q, x) : q \in {r \in shorter : Len(r) = n - 1}, x \in S}

Script(next_data, json, body, frags) ==
  [next_data |-> next_data, json |-> json, body |-> body, frags |-> frags]

\* One __NEXT_DATA__ script holding {"props": [agents...]}.
NextDataPage(agents, text) ==
  [scripts |-> <<Script(TRUE, FALSE,
                        JDict(<<KV(<<"p", "r", "o", "p", "s">>, JList(agents))>>), <<>>)>>,
   text |-> text]

\* A JSON script that does not parse, one JSON script per agent, and a plain
\* script in which the pattern finds a span that does not parse and the
\* first agent once more.
RECURSIVE JsonScripts(_)
JsonScripts(agents) ==
  IF agents = <<>> THEN <<>>
  ELSE <<Script(FALSE, TRUE, Head(agents), <<>>)>> \o JsonScripts(Tail(agents))

ScriptsPage(agents, text) ==
  [scripts |-> <<Script(FALSE, TRUE, Unparseable, <<>>)>> \o JsonScripts(agents)
                 \o <<Script(FALSE, FALSE, Unparseable,
                             <<Unparseable>>
                               \o (IF agents = <<>> THEN <<>> ELSE <<Head(agents)>>))>>,
   text |-> text]

PhonePages ==
  {NextDataPage(a, <<>>) : a \in SeqsUpTo(PhoneAgents, MaxAgentsP)}
    \cup {ScriptsPage(a, <<>>) : a \in SeqsUpTo(PhoneAgents, MaxAgentsP)}

InitPhones == \E page \in PhonePages : ParseStart(page)

SpecPhones == InitPhones /\ [][NextParse]_vars

\* --------------------------------------------- pages that carry counts
N_Ann == <<"A", "n", "n">>

N_ANN == <<"A", "N", "N">>

N_Bob == <<"B", "o", "b">>

K_sold == <<"s", "o", "l", "d">>

CountAgent(name, entries) == JDict(<<KV(K_person_name, JStr(name)), DirectOffice>> \o entries)

\* What a dict says of the counts: nothing; a sold count; a sold count as
\* text and a for-sale count one level down; a sold count out of range
\* beside one in range; a key that only resembles "sold" and a bool.
CountAgents ==
  {CountAgent(N_Ann, <<>>),
   CountAgent(N_Ann, <<KV(K_sold, JInt(12))>>),
   CountAgent(N_Ann,
              <<KV(<<"s", "t", "a", "t", "s">>,
                   JDict(<<KV(<<"s", "o", "l", "d", "_", "c", "o", "u", "n", "t">>,
                              JStr(<<"2", "0">>)),
                           KV(<<"f", "o", "r", "_", "s", "a", "l", "e">>, JInt(3))>>))>>),
   CountAgent(N_Ann,
              <<KV(K_sold, JInt(6000)),
                KV(<<"r", "e", "c", "e", "n", "t", "_", "s", "o", "l", "d">>, JInt(7))>>),
   CountAgent(N_ANN, <<>>),
   CountAgent(N_ANN, <<KV(K_sold, JInt(12))>>),
   CountAgent(N_ANN,
              <<KV(<<"u", "n", "s", "o", "l", "d">>, JInt(9)),
                KV(<<"a", "c", "t", "i", "v", "e", "_", "l", "i", "s", "t", "i", "n", "g", "s">>,
                   JBool(TRUE))>>),
   CountAgent(N_Bob, <<>>)}

Container(items, sold_m, fs_m) == [items |-> items, sold_m |-> sold_m, fs_m |-> fs_m]

Item(label, m) == [label |-> label, num |-> m]

TextNode(text, anc) == [text |-> text, anc |-> anc]

\* A container with neither a detail item nor a count in its text.
Plain == Container(<<>>, NoMatch, NoMatch)

\* What the visible text says: nothing; "Sold: 15" two levels above Ann;
\* detail items around Ann; "Sold: 6,000" and "For sale: 2" beside Ann; a
\* count nine levels above Bob; Ann twice, with a text count and with items.
CountTexts ==
  {<<>>,
   <<TextNode(N_Ann, <<Plain, Container(<<>>, Match(<<"1", "5">>), NoMatch)>>)>>,
   <<TextNode(<<" ", "a", "n", "n">>,
              <<Container(<<Item(<<" ", "S", "o", "l", "d", " ">>, Match(<<"1", "0">>)),
                            Item(<<"H", "o", "m", "e", "s", " ", "F", "o", "r", " ",
                                   "S", "a", "l", "e">>, Match(<<"4">>)),
                            Item(<<"S", "o", "l", "d">>, NoMatch)>>,
                          Match(<<"9", "9">>), NoMatch)>>)>>,
   <<TextNode(N_Ann, <<Container(<<Item(<<"S", "o", "l", "d">>, NoMatch)>>,
                                 Match(<<"6", ",", "0", "0", "0">>), Match(<<"2">>))>>)>>,
   <<TextNode(N_Bob, <<Plain, Plain, Plain, Plain, Plain, Plain, Plain, Plain,
                       Container(<<>>, Match(<<"9">>), NoMatch)>>)>>,
   <<TextNode(N_Ann, <<Container(<<>>, Match(<<"1", "5">>), NoMatch)>>),
     TextNode(N_ANN, <<Plain, Container(<<Item(<<"s", "o", "l", "d">>, Match(<<"3", "0">>))>>,
                                        NoMatch, NoMatch)>>)>>}

CountPages ==
  {NextDataPage(a, t) : a \in SeqsUpTo(CountAgents, MaxAgentsC), t \in CountTexts}

InitCounts == \E page \in CountPages : ParseStart(page)

SpecCounts == InitCounts /\ [][NextParse]_vars

\* ------------------------------------- pages whose data has other shapes
\* {"person_name": "Ann", "phones": "x"}
PhonesStr == JDict(<<KV(K_person_name, JStr(N_Ann)), KV(K_phones, JStr(<<"x">>))>>)

\* AnnOffice, PhonesStr and, with [...] for the phones of AnnOffice:
\*   {"person_name": "Ann", "phones": ["x"]}
\*   {"person_name": "Ann", "office": "x"}
\*   {"person_name": "Ann", "phones": [{"number": 5551234}]}
\*   {"first_name": 5, "last_name": "Lee", "phones": [...]}
\*   {"person_name": "Ann", "phones": [...], "sold": Infinity}
\*   {"person_name": "Ann", "phones": [{"type": ["x"], "number": "2065551234"}]}
\*   {"person_name": 5, "phones": [...]}
\*   {"person_name": "Ann", "phone_list": "x"}
ShapeAgents ==
  {AnnOffice,
   PhonesStr,
   JDict(<<KV(K_person_name, JStr(N_Ann)), KV(K_phones, JList(<<JStr(<<"x">>)>>))>>),
   JDict(<<KV(K_person_name, JStr(N_Ann)), KV(K_office, JStr(<<"x">>))>>),
   JDict(<<KV(K_person_name, JStr(N_Ann)),
           KV(K_phones, JList(<<JDict(<<KV(K_number, JInt(5551234))>>)>>))>>),
   JDict(<<KV(K_first_name, JInt(5)), KV(K_last_name, JStr(<<"L", "e", "e">>)), DirectOffice>>),
   JDict(<<KV(K_person_name, JStr(N_Ann)), DirectOffice, KV(K_sold, JNonFinite)>>),
   JDict(<<KV(K_person_name, JStr(N_Ann)),
           KV(K_phones, JList(<<JDict(<<KV(K_type, JList(<<JStr(<<"x">>)>>)),
                                        KV(K_number, JStr(Tel10))>>)>>))>>),
   JDict(<<KV(K_person_name, JInt(5)), DirectOffice>>),
   JDict(<<KV(K_person_name, JStr(N_Ann)), KV(K_phone_list, JStr(<<"x">>))>>)}

\* What the visible text says: nothing, or "Sold: ," beside Ann.
ShapeTexts == {<<>>, <<TextNode(N_Ann, <<Container(<<>>, Match(<<",">>), NoMatch)>>)>>}

ShapePages ==
  {NextDataPage(a, t) : a \in SeqsUpTo(ShapeAgents, MaxAgentsS), t \in ShapeTexts}
    \cup {ScriptsPage(a, t) : a \in SeqsUpTo(ShapeAgents, MaxAgentsS), t \in ShapeTexts}

InitShapes == \E page \in ShapePages : ParseStart(page)

SpecShapes == InitShapes /\ [][NextParse]_vars

\* ------------------------------------------------------ scrape, step by step
\* The responses a request is answered with: the request fails; a status
\* that is not 200, an empty body and a body with the marker, the last two
\* with agents in the body all the same; and pages that parse.
ScrapePages ==
  {NextDataPage(<<AnnOffice>>, <<>>),
   NextDataPage(<<ANNPlusOne, AlList>>, <<>>),
   NextDataPage(<<AlList, AnnMobile>>, <<>>),
   NextDataPage(<<NoPhones>>, <<>>),
   ScriptsPage(<<CountAgent(N_Bob, <<KV(K_sold, JInt(12))>>)>>, <<>>),
   NextDataPage(<<PhonesStr>>, <<>>)}

ScrapeResponses ==
  {Resp(TRUE, 0, TRUE, FALSE, NoPage),
   Resp(FALSE, 403, FALSE, FALSE, NextDataPage(<<AlList>>, <<>>)),
   Resp(FALSE, 200, TRUE, FALSE, NoPage),
   Resp(FALSE, 200, FALSE, TRUE, NextDataPage(<<AlList>>, <<>>))}
    \cup {Resp(FALSE, 200, FALSE, FALSE, page) : page \in ScrapePages}

\* Lines 319-332: one request, and the call of parse_agents_from_html on a
\* response that does not stop the loop.  fetched keeps each request made.
Fetch ==
  /\ spc = "loop"
  /\ pg <= max_pages
  /\ \E r \in ScrapeResponses :
       /\ fetched' = Append(fetched, [pg |-> pg, r |-> r, parsed |-> FALSE, agents |-> <<>>])
       /\ IF StopsAt(r)
            THEN spc' = "returned" /\ UNCHANGED parseVars
            ELSE /\ spc' = "parsing"
                 /\ html' = r.page
                 /\ pc' = "start"
                 /\ roots' = <<>>
                 /\ collected' = <<>>
                 /\ valid_names' = <<>>
                 /\ counts_by_name_json' = <<>>
                 /\ counts_by_name_html' = <<>>
                 /\ out_keyed' = <<>>
                 /\ idx' = 1
                 /\ result' = <<>>
  /\ UNCHANGED <<max_pages, pg, all_agents, seen_names, normVars>>

\* Lines 332-343, from the return of parse_agents_from_html on.
Accumulate ==
  /\ spc = "parsing"
  /\ pc = "done"
  /\ IF NewAgents(result, seen_names) = <<>>
       THEN spc' = "returned" /\ UNCHANGED <<pg, all_agents, seen_names>>
       ELSE /\ spc' = "loop"
            /\ pg' = pg + 1
            /\ all_agents' = all_agents \o NewAgents(result, seen_names)
            /\ seen_names' =
                 seen_names \cup {Lower(NewAgents(result, seen_names)[i].name) :
                                    i \in 1..Len(NewAgents(result, seen_names))}
  /\ fetched' = [fetched EXCEPT ![Len(fetched)] = [@ EXCEPT !.parsed = TRUE, !.agents = result]]
  /\ html' = NoPage
  /\ pc' = "idle"
  /\ roots' = <<>>
  /\ collected' = <<>>
  /\ valid_names' = <<>>
  /\ counts_by_name_json' = <<>>
  /\ counts_by_name_html' = <<>>
  /\ out_keyed' = <<>>
  /\ idx' = 1
  /\ result' = <<>>
  /\ UNCHANGED <<max_pages, normVars>>

\* parse_agents_from_html raised: scrape catches nothing at line 332.
ParseRaised ==
  /\ spc = "parsing"
  /\ pc = "raised"
  /\ spc' = "raised"
  /\ UNCHANGED <<max_pages, pg, all_agents, seen_names, fetched, parseVars, normVars>>

\* The range of line 319 is used up; line 347.
LoopEnd ==
  /\ spc = "loop"
  /\ pg > max_pages
  /\ spc' = "returned"
  /\ UNCHANGED <<max_pages, pg, all_agents, seen_names, fetched, parseVars, normVars>>

NextScrape ==
  \/ Fetch
  \/ LoadCandidates
  \/ CollectValidNames
  \/ CollectCounts
  \/ Reconcile
  \/ Return
  \/ Accumulate
  \/ ParseRaised
  \/ LoopEnd

InitScrape ==
  /\ NormIdle
  /\ ParseIdle
  /\ max_pages \in 0..MaxPages
  /\ pg = 1
  /\ all_agents = <<>>
  /\ seen_names = {}
  /\ spc = "loop"
  /\ fetched = <<>>

SpecScrape == InitScrape /\ [][NextScrape]_vars

\* ------------------------------------------------------------ properties
\* The collected nodes that give the record of a lowercased name.
NodesOf(key) ==
  {i \in 1..Len(collected) :
     ValidNode(collected[i]) /\ Lower(extract_name(collected[i])) = key}

JsonCountsOf(name) == CountsGet(counts_by_name_json, Lower(name))

HtmlCountsOf(name) == CountsGet(counts_by_name_html, _normalize_name(name))

\* C1: parse_agents_from_html returns a record for a lowercased name if and
\* only if some collected agent-like node of that lowercased name has a
\* non-empty extracted name and a non-empty extracted phone list; so every
\* record returned has a non-empty name and at least one phone, and a node
\* without a usable name or without phones creates no record.
C1_RecordIffUsableNode ==
  pc = "done" =>
    /\ \A i \in 1..Len(collected) :
         (extract_name(collected[i]) # <<>> /\ extract_phones(collected[i]) # <<>>)
           => \E k \in 1..Len(result) :
                Lower(result[k].name) = Lower(extract_name(collected[i]))
    /\ \A k \in 1..Len(result) :
         /\ result[k].name # <<>>
         /\ result[k].phones # <<>>
         /\ \E i \in 1..Len(collected) :
              /\ extract_name(collected[i]) # <<>>
              /\ extract_phones(collected[i]) # <<>>
              /\ Lower(extract_name(collected[i])) = Lower(result[k].name)

\* A page is parsed that gives a record and holds a named node without
\* phones, for whose name there is no record.
C1_Witness ==
  /\ pc = "done"
  /\ result # <<>>
  /\ \E i \in 1..Len(collected) :
       /\ extract_name(collected[i]) # <<>>
       /\ extract_phones(collected[i]) = <<>>
       /\ \A k \in 1..Len(result) :
            Lower(result[k].name) # Lower(extract_name(collected[i]))

\* C2: parse_agents_from_html never raises, whatever the shape of the data
\* embedded in the page: phones that is no list of dicts, an office that is
\* no dict, a number or a first_name that is no str, a count that is no
\* finite number.
C2_NeverRaises == pc # "raised"

\* The phones of the nodes of a key, each named <<node, position>>, in the
\* order of discovery.
PhonesSeen(key) ==
  UNION {{<<i, m>> : m \in 1..Len(extract_phones(collected[i]))} : i \in NodesOf(key)}

Earlier(p, q) == p[1] < q[1] \/ (p[1] = q[1] /\ p[2] < q[2])

PairAt(p) ==
  <<extract_phones(collected[p[1]])[p[2]].type, extract_phones(collected[p[1]])[p[2]].number>>

\* Those whose (type, number) pair no earlier one has.
FirstSeen(key) ==
  {p \in PhonesSeen(key) : \A q \in PhonesSeen(key) : Earlier(q, p) => PairAt(q) # PairAt(p)}

\* C3: in every record returned, no two phones have the same (type, number)
\* pair, and the phones are in first-seen order: those of the first node of
\* the name, then each later node's pairs that are not yet present, in the
\* order of discovery.
C3_PhonesFirstSeen ==
  pc = "done" =>
    \A k \in 1..Len(result) :
      LET phones == result[k].phones
          first == FirstSeen(Lower(result[k].name))
      IN /\ \A a, b \in 1..Len(phones) :
              a # b => <<phones[a].type, phones[a].number>> # <<phones[b].type, phones[b].number>>
         /\ Len(phones) = Cardinality(first)
         /\ \A p \in first :
              LET at == 1 + Cardinality({q \in first : Earlier(q, p)})
              IN <<phones[at].type, phones[at].number>> = PairAt(p)

\* A record is returned that merges two nodes: a phone of the later node is
\* kept and a pair already present is dropped.
C3_Witness ==
  /\ pc = "done"
  /\ \E k \in 1..Len(result) :
       LET key == Lower(result[k].name) IN
       /\ Cardinality(PhonesSeen(key)) > Len(result[k].phones)
       /\ \E p, q \in FirstSeen(key) : p[1] # q[1]
       /\ \E p, q \in PhonesSeen(key) : p[1] # q[1] /\ PairAt(p) = PairAt(q)

\* C4: the list returned is in strictly ascending order of lowercased name,
\* so no two records have names equal ignoring case, and a record keeps the
\* spelling of the first node of its name.
C4_SortedByLowercasedName ==
  pc = "done" =>
    /\ \A k \in 1..(Len(result) - 1) :
         StrLess(Lower(result[k].name), Lower(result[k + 1].name))
    /\ \A k \in 1..Len(result) :
         /\ NodesOf(Lower(result[k].name)) # {}
         /\ result[k].name = extract_name(collected[Min(NodesOf(Lower(result[k].name)))])

\* Two records are returned in another order than they were discovered in,
\* one of them merged from nodes that spell the name differently.
C4_Witness ==
  /\ pc = "done"
  /\ Len(result) >= 2
  /\ result # Records(out_keyed)
  /\ \E k \in 1..Len(result) : \E i \in NodesOf(Lower(result[k].name)) :
       extract_name(collected[i]) # result[k].name

\* A pass of the reconciliation loop that discovers a name stores, for sold
\* and for for_sale, the visible-text value when there is one, else the
\* structured value, else None.
C5_FirstDiscovery ==
  (pc = "reconcile" /\ Len(out_keyed') = Len(out_keyed) + 1) =>
    LET e == out_keyed'[Len(out_keyed')]
    IN /\ e.sold = (IF HtmlCountsOf(e.name).sold.some
                      THEN HtmlCountsOf(e.name).sold ELSE JsonCountsOf(e.name).sold)
       /\ e.for_sale = (IF HtmlCountsOf(e.name).fs.some
                          THEN HtmlCountsOf(e.name).fs ELSE JsonCountsOf(e.name).fs)

\* Structured data reports sold 12 and the visible text Sold: 15.
Sold12Text15(name) ==
  JsonCountsOf(name).sold = Some(12) /\ HtmlCountsOf(name).sold = Some(15)

NotBelow(a, b) == a.some => (b.some /\ b.v >= a.v)

\* A pass of the reconciliation loop keeps every stored record, and leaves
\* it as it is unless the node has its name; then sold and for_sale are
\* each the maximum of the stored, the visible-text and the structured
\* value, None ignored.
C6_Pass ==
  (pc = "reconcile" /\ pc' = "reconcile") =>
    /\ Len(out_keyed') >= Len(out_keyed)
    /\ \A i \in 1..Len(out_keyed) :
         LET e == out_keyed[i]
             raw == collected[idx]
         IN /\ out_keyed'[i].key = e.key
            /\ NotBelow(e.sold, out_keyed'[i].sold)
            /\ NotBelow(e.for_sale, out_keyed'[i].for_sale)
            /\ IF /\ extract_name(raw) # <<>>
                  /\ extract_phones(raw) # <<>>
                  /\ Lower(extract_name(raw)) = e.key
                 THEN /\ out_keyed'[i].sold =
                           MaxOptSet({e.sold, HtmlCountsOf(extract_name(raw)).sold,
                                      JsonCountsOf(extract_name(raw)).sold})
                      /\ out_keyed'[i].for_sale =
                           MaxOptSet({e.for_sale, HtmlCountsOf(extract_name(raw)).fs,
                                      JsonCountsOf(extract_name(raw)).fs})
                 ELSE out_keyed'[i] = e

\* C6: while the loop goes through the collected nodes, the stored sold and
\* for_sale of a record never decrease and never go from present to None:
\* a further node of the name replaces each by the maximum of the stored,
\* the visible-text and the structured value, None ignored, so a field
\* stays None when all three are.
C6_CountsNeverDecrease == [][C6_Pass]_vars

\* A further node of a name has raised the stored sold count above the
\* visible-text value it was first given.
C6_Witness ==
  /\ pc = "reconcile"
  /\ \E i \in 1..Len(out_keyed) :
       /\ HtmlCountsOf(out_keyed[i].name).sold.some
       /\ out_keyed[i].sold.some
       /\ out_keyed[i].sold.v > HtmlCountsOf(out_keyed[i].name).sold.v

\* C7: the visible-text counts only fill what the structured data left
\* None: whenever the structured data has a value for a name's sold or
\* for_sale, the record returned has that value.
C7_StructuredValueKept ==
  pc = "done" =>
    \A k \in 1..Len(result) :
      /\ JsonCountsOf(result[k].name).sold.some
           => result[k].sold = JsonCountsOf(result[k].name).sold
      /\ JsonCountsOf(result[k].name).fs.some
           => result[k].for_sale = JsonCountsOf(result[k].name).fs

\* C8: every sold and for_sale of a record returned is None or an integer
\* in [0, 5000], whichever path gave the candidates.
C8_CountsPlausible ==
  pc = "done" =>
    \A k \in 1..Len(result) :
      /\ result[k].sold.some => (0 <= result[k].sold.v /\ result[k].sold.v <= 5000)
      /\ result[k].for_sale.some
           => (0 <= result[k].for_sale.v /\ result[k].for_sale.v <= 5000)

\* t is s without its surrounding whitespace.
Trimmed(s, t) ==
  \E a \in 1..(Len(s) + 1) : \E b \in 0..Len(s) :
    /\ t = SubSeq(s, a, b)
    /\ \A i \in 1..(a - 1) : IsSpace(s[i])
    /\ \A i \in (b + 1)..Len(s) : IsSpace(s[i])
    /\ t # <<>> => (~IsSpace(t[1]) /\ ~IsSpace(t[Len(t)]))

\* C9: normalize_number gives (DDD) DDD-DDDD from the digits when exactly
\* 10 remain after the other characters are removed, +1 (DDD) DDD-DDDD from
\* the last 10 when exactly 11 remain and the first is 1, and else the
\* argument without its surrounding whitespace; the empty string is
\* returned as it is.
C9_NormalizeNumber ==
  npc = "done" =>
    LET d == SelectSeq(num, IsDigit) IN
    IF num = <<>> THEN norm_out = <<>>
    ELSE IF Len(d) = 10
      THEN norm_out = <<"(", d[1], d[2], d[3], ")", " ", d[4], d[5], d[6], "-",
                        d[7], d[8], d[9], d[10]>>
    ELSE IF Len(d) = 11 /\ d[1] = "1"
      THEN norm_out = <<"+", "1", " ", "(", d[2], d[3], d[4], ")", " ", d[5], d[6], d[7],
                        "-", d[8], d[9], d[10], d[11]>>
    ELSE Trimmed(num, norm_out)

\* Eleven digits that begin with 1 have been normalized.
C9_Witness ==
  /\ npc = "done"
  /\ Len(SelectSeq(num, IsDigit)) = 11
  /\ num[1] = "1"
  /\ Len(norm_out) = 17

\* The names, lowercased, of the records parsed from the k-th request.
NamesAt(k) == {Lower(fetched[k].agents[m].name) : m \in 1..Len(fetched[k].agents)}

\* The k-th request ends the loop: it failed, or its status is not 200, or
\* its body is empty or holds the marker, or no name parsed from it is new.
Halts(k) ==
  \/ StopsAt(fetched[k].r)
  \/ fetched[k].parsed /\ \A n \in NamesAt(k) : \E k2 \in 1..(k - 1) : n \in NamesAt(k2)

\* C10: in scrape, the accumulated list has no two records of the same
\* lowercased name, each record is the one parsed from the earliest page
\* that had its name, the pages are requested in order from 1 up to
\* max_pages, and the loop ends at the first page that fails to fetch, has
\* a status other than 200, an empty body or the marker, or gives no new
\* name, so that nothing of a later page is added.
C10_ScrapeAccumulates ==
  /\ \A i, j \in 1..Len(all_agents) :
       i # j => Lower(all_agents[i].name) # Lower(all_agents[j].name)
  /\ \A i \in 1..Len(all_agents) :
       \E k \in 1..Len(fetched) :
         /\ fetched[k].parsed
         /\ \E m \in 1..Len(fetched[k].agents) : fetched[k].agents[m] = all_agents[i]
         /\ \A k2 \in 1..(k - 1) : Lower(all_agents[i].name) \notin NamesAt(k2)
  /\ \A k \in 1..Len(fetched) :
       /\ fetched[k].pg = k
       /\ k <= max_pages
       /\ fetched[k].parsed =>
            \A n \in NamesAt(k) : \E i \in 1..Len(all_agents) : Lower(all_agents[i].name) = n
       /\ Halts(k) => (k = Len(fetched) /\ spc = "returned")
  /\ (spc = "returned" /\ \A k \in 1..Len(fetched) : ~Halts(k)) => Len(fetched) = max_pages

\* Three pages have been requested; the second had a new name and, spelled
\* differently and with other phones, a name of the first, and the third
\* ended the loop.
C10_Witness ==
  /\ spc = "returned"
  /\ Len(fetched) = 3
  /\ Halts(3)
  /\ Len(all_agents) >= 2
  /\ \E m \in 1..Len(fetched[2].agents) :
       /\ Lower(fetched[2].agents[m].name) \in NamesAt(1)
       /\ \A i \in 1..Len(all_agents) : all_agents[i] # fetched[2].agents[m]

====
